---- MODULE Spec2Model ----
(***************************************************************************)
(* State machine of the HomePage component (src/app/page.js) of the AI     *)
(* researcher front-end: the React state of the page, the asynchronous     *)
(* handlers that are in flight (research sends, conversation loads,        *)
(* deletes, history fetches) with the values their closures captured, and  *)
(* the external collaborators (auth provider, conversations table,         *)
(* research backend) as nondeterministic responders; with it the upload    *)
(* dialog (ChatInput, UploaderModal) and the login form (AuthForm), which  *)
(* the page mounts with and without a session.                             *)
(*                                                                         *)
(* One step of the model is one run of JavaScript between two suspension   *)
(* points: an event handler up to its first await, or the continuation of  *)
(* an await up to the next one.  State updates made with a functional      *)
(* updater read the state at that step; values a handler read from its     *)
(* closure (session, currentConversationId, isNewChat) are kept in the     *)
(* record of the in-flight call.                                           *)
(***************************************************************************)
EXTENDS Integers, Sequences, FiniteSets, TLC

VARIABLES
    session,                \* useState(null): Null or the signed-in user id
    messages,               \* useState([]): sequence of [role, content]
    query,                  \* useState(""): text of the input box
    history,                \* useState([]): conversation ids, newest first
    currentConversationId,  \* useState(null)
    isLoading,              \* busy flag of handleResearch
    isLoadingHistory,       \* flag of fetchHistory
    isLoadingConversation,  \* flag of loadConversation
    sends,                  \* handleResearch calls in flight
    loads,                  \* loadConversation calls in flight
    deletes,                \* handleDeleteConversation calls in flight
    fetches,                \* fetchHistory calls of the auth callback in flight
    db,                     \* conversations table of the user, newest first
    nextId,                 \* index in NewIds of the next conversation id
    alertShown,             \* text of the alert() raised by the last step
    caught,                 \* error.message a catch block of the last step got
    unhandled,              \* the last step ended in an unhandled rejection
    uploaderOpen,           \* ChatInput: useState(false)
    file,                   \* UploaderModal: useState(null), a file name
    status,                 \* UploaderModal: useState('')
    statusType,             \* UploaderModal: 'info', 'success' or 'error'
    isProcessing,           \* UploaderModal: useState(false)
    uploads,                \* handleUpload calls in flight
    closeTimers,            \* pending setTimeout(closeModal, 2000)
    resetTimers,            \* pending setTimeout of closeModal (300 ms)
    email,                  \* AuthForm: useState('')
    authError,              \* AuthForm: useState(null)
    message,                \* AuthForm: useState(null)
    formIsLoading,          \* AuthForm: isLoading
    isSigningUp,            \* AuthForm: useState(false)
    formCall                \* AuthForm: the auth call in flight, if any

\* state of the page
pageVars == <<session, messages, query, history, currentConversationId,
              isLoading, isLoadingHistory, isLoadingConversation, sends, loads,
              deletes, fetches, db, nextId>>

\* state of the upload dialog (ChatInput and UploaderModal)
uploadVars == <<uploaderOpen, file, status, statusType, isProcessing, uploads,
                closeTimers, resetTimers>>

\* state of the login form (AuthForm)
formVars == <<email, authError, message, formIsLoading, isSigningUp, formCall>>

vars == <<pageVars, alertShown, caught, unhandled, uploadVars, formVars>>

----------------------------------------------------------------------------
(* Bounds of the model *)

MaxMsgs == 4        \* a send is modelled only while it fits in this length
MaxInFlight == 2    \* asynchronous calls in flight at once, of any kind
MaxChunk == 2       \* bytes in one chunk of the response stream

(* Inputs *)

Null == "null"
UserId == "u1"
Queries == {"", "hello"}
OldIds == <<"c1">>                  \* conversations that exist at start
NewIds == <<"c2">>                  \* ids the backend gives new conversations
Alphabet == {"a", "E"}              \* characters of a response text; E
                                    \* is written for U+00E9, two bytes
Texts == {<<>>, <<"E">>, <<"a", "E">>}   \* texts the backend streams
Details == {Null, "overloaded"}     \* detail of a non-2xx body, Null: no JSON
NetErrors == {"Failed to fetch"}    \* message of a rejected fetch or read

Msg(r, c) == [role |-> r, content |-> c]

Last(s) == s[Len(s)]
Front(s) == SubSeq(s, 1, Len(s) - 1)
Min(a, b) == IF a < b THEN a ELSE b
RemoveAt(s, i) == SubSeq(s, 1, i - 1) \o SubSeq(s, i + 1, Len(s))
Range(s) == {s[i] : i \in 1..Len(s)}

\* handlers that are suspended at an await
InFlight == Len(sends) + Len(loads) + Cardinality(deletes) + fetches

RECURSIVE Filter(_, _)
Filter(s, x) ==
    IF s = <<>> THEN <<>>
    ELSE IF s[1] = x THEN Filter(Tail(s), x)
    ELSE <<s[1]>> \o Filter(Tail(s), x)

----------------------------------------------------------------------------
(* The response body on the wire and TextDecoder('utf-8'), stream: true *)

Replacement == "?"          \* stands for U+FFFD

CodePoint(c) == IF c = "a" THEN 97 ELSE IF c = "E" THEN 233 ELSE 65533

CharOf(cp) ==
    IF \E c \in Alphabet : CodePoint(c) = cp
    THEN CHOOSE c \in Alphabet : CodePoint(c) = cp
    ELSE Replacement

\* UTF-8 bytes of one character, as the backend writes them
EncodeChar(c) ==
    LET cp == CodePoint(c) IN
    IF cp < 128 THEN <<cp>>
    ELSE IF cp < 2048 THEN <<192 + (cp \div 64), 128 + (cp % 64)>>
    ELSE <<224 + (cp \div 4096), 128 + ((cp \div 64) % 64), 128 + (cp % 64)>>

RECURSIVE EncodeText(_)
EncodeText(t) == IF t = <<>> THEN <<>> ELSE EncodeChar(t[1]) \o EncodeText(Tail(t))

RECURSIVE TextString(_)
TextString(t) == IF t = <<>> THEN "" ELSE t[1] \o TextString(Tail(t))

\* continuation bytes a lead byte announces (0: not a lead byte)
Need(b) ==
    IF b >= 194 /\ b <= 223 THEN 1
    ELSE IF b >= 224 /\ b <= 239 THEN 2
    ELSE IF b >= 240 /\ b <= 244 THEN 3
    ELSE 0

IsContinuation(b) == b >= 128 /\ b <= 191

CodePointOf(bs) ==
    IF Len(bs) = 2 THEN (bs[1] - 192) * 64 + (bs[2] - 128)
    ELSE IF Len(bs) = 3
    THEN (bs[1] - 224) * 4096 + (bs[2] - 128) * 64 + (bs[3] - 128)
    ELSE (bs[1] - 240) * 262144 + (bs[2] - 128) * 4096
            + (bs[3] - 128) * 64 + (bs[4] - 128)

\* one byte with nothing pending
DecodeFresh(b) ==
    IF b < 128 THEN [out |-> CharOf(b), carry |-> <<>>]
    ELSE IF Need(b) > 0 THEN [out |-> "", carry |-> <<b>>]
    ELSE [out |-> Replacement, carry |-> <<>>]

\* one byte fed to the decoder whose pending bytes are carry
DecodeByte(carry, b) ==
    IF carry = <<>> THEN DecodeFresh(b)
    ELSE IF IsContinuation(b)
    THEN LET bs == Append(carry, b) IN
         IF Len(bs) = Need(bs[1]) + 1
         THEN [out |-> CharOf(CodePointOf(bs)), carry |-> <<>>]
         ELSE [out |-> "", carry |-> bs]
    ELSE LET r == DecodeFresh(b) IN
         [out |-> Replacement \o r.out, carry |-> r.carry]

\* a decoder that is flushed at the end of every chunk (stream: false)
RECURSIVE DecodeNoCarry(_, _)
DecodeNoCarry(carry, bytes) ==
    IF bytes = <<>>
    THEN [out |-> IF carry = <<>> THEN "" ELSE Replacement, carry |-> <<>>]
    ELSE LET r == DecodeByte(carry, bytes[1])
             s == DecodeNoCarry(r.carry, Tail(bytes))
         IN  [out |-> r.out \o s.out, carry |-> <<>>]

\* decoder.decode(value, {stream: true}): the text a chunk yields and the
\* bytes of an unfinished character the decoder keeps for the next call
RECURSIVE Decode(_, _)
Decode(carry, bytes) ==
    IF bytes = <<>> THEN [out |-> "", carry |-> carry]
    ELSE LET r == DecodeByte(carry, bytes[1])
             s == Decode(r.carry, Tail(bytes))
         IN  [out |-> r.out \o s.out, carry |-> s.carry]

----------------------------------------------------------------------------
(* Initial state: the component as mounted, nobody signed in *)

Init ==
    /\ session = Null
    /\ messages = <<>>
    /\ query = ""
    /\ history = <<>>
    /\ currentConversationId = Null
    /\ isLoading = FALSE
    /\ isLoadingHistory = FALSE
    /\ isLoadingConversation = FALSE
    /\ sends = <<>>
    /\ loads = <<>>
    /\ deletes = {}
    /\ fetches = 0
    /\ db = OldIds
    /\ nextId = 1
    /\ alertShown = ""
    /\ caught = ""
    /\ unhandled = FALSE
    /\ uploaderOpen = FALSE
    /\ file = Null
    /\ status = ""
    /\ statusType = "info"
    /\ isProcessing = FALSE
    /\ uploads = 0
    /\ closeTimers = 0
    /\ resetTimers = 0
    /\ email = ""
    /\ authError = Null
    /\ message = Null
    /\ formIsLoading = FALSE
    /\ isSigningUp = FALSE
    /\ formCall = Null

----------------------------------------------------------------------------
(* Mounting: the page renders AuthForm while session is null and the chat,  *)
(* with ChatInput and its UploaderModal, otherwise.  A component that is   *)
(* not mounted holds its initial state; calls and timers it left behind    *)
(* can no longer change anything and are dropped.                          *)

\* ChatInput and UploaderModal are unmounted
UploadUnmount ==
    /\ uploaderOpen' = FALSE
    /\ file' = Null
    /\ status' = ""
    /\ statusType' = "info"
    /\ isProcessing' = FALSE
    /\ uploads' = 0
    /\ closeTimers' = 0
    /\ resetTimers' = 0

\* AuthForm is unmounted
FormUnmount ==
    /\ email' = ""
    /\ authError' = Null
    /\ message' = Null
    /\ formIsLoading' = FALSE
    /\ isSigningUp' = FALSE
    /\ formCall' = Null

\* a step of a handler of the page: m is the error.message its catch block
\* got ("" when none ran); the dialog and the form are not touched
PageStep(m) ==
    /\ caught' = m
    /\ unhandled' = FALSE
    /\ UNCHANGED <<uploadVars, formVars>>

----------------------------------------------------------------------------
(* The conversations table behind fetchHistory *)

HistoryLimit == 20

\* select ... order('created_at', descending).limit(20)
SelectHistory == SubSeq(db, 1, Min(HistoryLimit, Len(db)))

\* what fetchHistory sets and returns: the rows, or [] when the query fails
HistoryResults == {SelectHistory, <<>>}

DbErrors == {"permission denied"}   \* error.message of a failed table call

----------------------------------------------------------------------------
(* Authentication: the onAuthStateChange callback *)

\* callback with a session, invoked when the user signs in: setSession, then
\* fetchHistory up to its await.  Overlapping fetches of the callback are left
\* out: a sign-in is modelled once the fetch of the previous one has settled.
AuthSignedIn ==
    /\ session = Null
    /\ fetches = 0
    /\ InFlight < MaxInFlight
    /\ session' = UserId
    /\ isLoadingHistory' = TRUE
    /\ fetches' = fetches + 1
    /\ UNCHANGED <<messages, query, history, currentConversationId, isLoading,
                   isLoadingConversation, sends, loads, deletes, db, nextId>>
    /\ alertShown' = ""
    /\ caught' = ""
    /\ unhandled' = FALSE
    /\ FormUnmount
    /\ UNCHANGED uploadVars

\* callback with a null session
AuthSignedOut ==
    /\ session # Null
    /\ session' = Null
    /\ messages' = <<>>
    /\ history' = <<>>
    /\ currentConversationId' = Null
    /\ UNCHANGED <<query, isLoading, isLoadingHistory, isLoadingConversation,
                   sends, loads, deletes, fetches, db, nextId>>
    /\ alertShown' = ""
    /\ caught' = ""
    /\ unhandled' = FALSE
    /\ UploadUnmount
    /\ UNCHANGED formVars

\* a fetchHistory call of the auth callback resumes: try or catch, then
\* finally
FetchHistoryFinish(data, m) ==
    /\ fetches > 0
    /\ history' = data
    /\ isLoadingHistory' = FALSE
    /\ fetches' = fetches - 1
    /\ UNCHANGED <<session, messages, query, currentConversationId, isLoading,
                   isLoadingConversation, sends, loads, deletes, db, nextId>>
    /\ alertShown' = ""
    /\ PageStep(m)

\* the query returned the rows
FetchHistoryReturn(data) == FetchHistoryFinish(data, "")

\* the query returned an error: it is logged and the history is emptied
FetchHistoryFail(m) == FetchHistoryFinish(<<>>, m)

\* handleLogout when signOut fails: an error it returns is dropped; when
\* it rejects, nothing catches the rejection of the async handler.  (A
\* sign-out that succeeds is the step AuthSignedOut.)
handleLogoutFails(rejected) ==
    /\ session # Null
    /\ unhandled' = rejected
    /\ caught' = ""
    /\ alertShown' = ""
    /\ UNCHANGED <<pageVars, uploadVars, formVars>>

----------------------------------------------------------------------------
(* The input box and the sidebar *)

\* the isLoading prop of ChatInput: it disables the textarea and the button
InputDisabled == isLoading \/ isLoadingConversation

\* the textarea's onChange
SetQuery(q) ==
    /\ session # Null
    /\ ~InputDisabled
    /\ q # query
    /\ query' = q
    /\ UNCHANGED <<session, messages, history, currentConversationId, isLoading,
                   isLoadingHistory, isLoadingConversation, sends, loads,
                   deletes, fetches, db, nextId>>
    /\ alertShown' = ""
    /\ PageStep("")

startNewChat ==
    /\ session # Null
    /\ messages' = <<>>
    /\ query' = ""
    /\ currentConversationId' = Null
    /\ UNCHANGED <<session, history, isLoading, isLoadingHistory,
                   isLoadingConversation, sends, loads, deletes, fetches, db,
                   nextId>>
    /\ alertShown' = ""
    /\ PageStep("")

\* the sidebar lists the history (and its load and delete buttons) only
\* while no history fetch is running, and disables the buttons during a load
HistoryButtonEnabled(id) ==
    /\ session # Null
    /\ ~isLoadingHistory
    /\ ~isLoadingConversation
    /\ id \in Range(history)

----------------------------------------------------------------------------
(* loadConversation *)

Row(r, c, id) == [role |-> r, content |-> c, conversation_id |-> id]

\* bodies GET /conversation/{id} answers with, in chronological order; the
\* stored answer differs from every text the model streams
StoredRows(id) ==
    { <<Row("user", "hello", id), Row("ai", "answer", id)>>,
      <<Row("user", "hello", id)>> }

\* data.map(msg => ({role: msg.role, content: msg.content}))
MapRowsFirstOnly(rows) ==
    IF rows = <<>> THEN <<>> ELSE <<Msg(rows[1].role, rows[1].content)>>

MapRows(rows) == [i \in 1..Len(rows) |-> Msg(rows[i].role, rows[i].content)]

LoadFailedText(m) == "Failed to load conversation: " \o m

\* error.message of a failed load: the body's detail, the default text when
\* the body has none, or the message of the rejected fetch
LoadErrors ==
    {IF d = Null THEN "Failed to load messages." ELSE d : d \in Details}
        \cup NetErrors

\* the handler up to its await
loadConversation(id) ==
    /\ HistoryButtonEnabled(id)
    /\ ~(id = Null \/ isLoadingConversation)
    /\ InFlight < MaxInFlight
    /\ isLoadingConversation' = TRUE
    /\ messages' = <<>>
    /\ currentConversationId' = id
    /\ loads' = Append(loads, id)
    /\ UNCHANGED <<session, query, history, isLoading, isLoadingHistory, sends,
                   deletes, fetches, db, nextId>>
    /\ alertShown' = ""
    /\ PageStep("")

LoadFinish(i, msgs, m) ==
    /\ messages' = msgs
    /\ isLoadingConversation' = FALSE
    /\ loads' = RemoveAt(loads, i)
    /\ UNCHANGED <<session, query, history, currentConversationId, isLoading,
                   isLoadingHistory, sends, deletes, fetches, db, nextId>>
    /\ alertShown' = ""
    /\ PageStep(m)

\* response.ok: the rows replace the message sequence
LoadReturnOk(i, rows) ==
    /\ i \in 1..Len(loads)
    /\ rows \in StoredRows(loads[i])
    /\ LoadFinish(i, MapRows(rows), "")

\* !response.ok, or fetch or response.json() rejected
LoadReturnFail(i, m) ==
    /\ i \in 1..Len(loads)
    /\ LoadFinish(i, <<Msg("ai", LoadFailedText(m))>>, m)

----------------------------------------------------------------------------
(* handleDeleteConversation *)

DeleteFailedText(m) == "Failed to delete chat: " \o m

\* the handler up to its first await: the entry is in the history the
\* closure holds, the user confirms, the delete of the messages is issued.
\* Overlapping deletes are left out: one call is in flight at a time.
handleDeleteConversation(id) ==
    /\ HistoryButtonEnabled(id)
    /\ deletes = {}
    /\ InFlight < MaxInFlight
    /\ deletes' = deletes \cup
          {[id |-> id, current |-> currentConversationId, phase |-> "messages"]}
    /\ alertShown' = ""
    /\ PageStep("")
    /\ UNCHANGED <<session, messages, query, history, currentConversationId,
                   isLoading, isLoadingHistory, isLoadingConversation, sends,
                   loads, fetches, db, nextId>>

\* the catch block
DeleteFailed(d, m) ==
    /\ deletes' = deletes \ {d}
    /\ alertShown' = DeleteFailedText(m)
    /\ PageStep(m)
    /\ UNCHANGED <<session, messages, query, history, currentConversationId,
                   isLoading, isLoadingHistory, isLoadingConversation, sends,
                   loads, fetches, db, nextId>>

\* the delete of the messages succeeded: the delete of the conversation
\* row is issued
DeleteMessagesOkEager(d) ==
    /\ d \in deletes /\ d.phase = "messages"
    /\ deletes' = (deletes \ {d}) \cup {[d EXCEPT !.phase = "conversation"]}
    /\ history' = Filter(history, d.id)
    /\ UNCHANGED <<session, messages, query, currentConversationId, isLoading,
                   isLoadingHistory, isLoadingConversation, sends, loads,
                   fetches, db, nextId>>
    /\ alertShown' = ""
    /\ PageStep("")

DeleteMessagesOk(d) ==
    /\ d \in deletes /\ d.phase = "messages"
    /\ deletes' = (deletes \ {d}) \cup {[d EXCEPT !.phase = "conversation"]}
    /\ UNCHANGED <<session, messages, query, history, currentConversationId,
                   isLoading, isLoadingHistory, isLoadingConversation, sends,
                   loads, fetches, db, nextId>>
    /\ alertShown' = ""
    /\ PageStep("")

DeleteMessagesFail(d, m) ==
    /\ d \in deletes /\ d.phase = "messages"
    /\ DeleteFailed(d, m)

\* both deletes succeeded: the row is gone from the table, the entry is
\* filtered out of the history, and the chat is reset when the conversation
\* the closure saw as current is the deleted one
DeleteConversationOk(d) ==
    /\ d \in deletes /\ d.phase = "conversation"
    /\ deletes' = deletes \ {d}
    /\ db' = Filter(db, d.id)
    /\ history' = Filter(history, d.id)
    /\ IF d.current = d.id
       THEN /\ messages' = <<>>
            /\ query' = ""
            /\ currentConversationId' = Null
       ELSE UNCHANGED <<messages, query, currentConversationId>>
    /\ UNCHANGED <<session, isLoading, isLoadingHistory, isLoadingConversation,
                   sends, loads, fetches, nextId>>
    /\ alertShown' = ""
    /\ PageStep("")

DeleteConversationFail(d, m) ==
    /\ d \in deletes /\ d.phase = "conversation"
    /\ DeleteFailed(d, m)

----------------------------------------------------------------------------
(* handleResearch *)

Statuses == {"500"}                 \* status of a non-2xx answer

Placeholder == Msg("ai", "")

\* the send button and the Enter key of ChatInput act only when the input is
\* enabled and non-empty; handleResearch returns at once without a session,
\* without a query or while isLoading
SendAcceptedWhenEmpty ==
    /\ ~InputDisabled
    /\ ~(session = Null \/ isLoading)

SendAccepted ==
    /\ ~InputDisabled /\ query # ""
    /\ ~(session = Null \/ query = "" \/ isLoading)

\* body of POST /research
ResearchRequestNoConversation ==
    [query |-> query, user_id |-> session, conversation_id |-> Null]

ResearchRequest ==
    [query |-> query, user_id |-> session,
     conversation_id |-> currentConversationId]

\* a call in flight: where it is suspended, what its closure holds (session,
\* isNewChat), the request it issued, the text the backend streams and how
\* many of its bytes have arrived, and the locals of the read loop
NewSend ==
    [phase |-> "request", request |-> ResearchRequest, session |-> session,
     isNewChat |-> (currentConversationId = Null), outcome |-> "none",
     text |-> <<>>, pos |-> 0, aiResponseContent |-> "", carry |-> <<>>]

\* the handler up to the await of fetch
handleResearchLeavesFlag ==
    /\ SendAccepted
    /\ InFlight < MaxInFlight
    /\ Len(messages) + 2 <= MaxMsgs
    /\ messages' = Append(Append(messages, Msg("user", query)), Placeholder)
    /\ query' = ""
    /\ sends' = Append(sends, NewSend)
    /\ UNCHANGED <<session, history, currentConversationId, isLoading,
                   isLoadingHistory, isLoadingConversation, loads, deletes,
                   fetches, db, nextId>>
    /\ alertShown' = ""
    /\ PageStep("")

handleResearch ==
    /\ SendAccepted
    /\ InFlight < MaxInFlight
    /\ Len(messages) + 2 <= MaxMsgs
    /\ isLoading' = TRUE
    /\ messages' = Append(Append(messages, Msg("user", query)), Placeholder)
    /\ query' = ""
    /\ sends' = Append(sends, NewSend)
    /\ UNCHANGED <<session, history, currentConversationId, isLoadingHistory,
                   isLoadingConversation, loads, deletes, fetches, db, nextId>>
    /\ alertShown' = ""
    /\ PageStep("")

\* the answer is 2xx: the backend streams a text; a request without a
\* conversation id makes the backend create the conversation
ResearchRespondOk(i, text) ==
    /\ i \in 1..Len(sends)
    /\ sends[i].phase = "request"
    /\ sends' = [sends EXCEPT ![i].phase = "stream", ![i].text = text]
    /\ IF sends[i].request.conversation_id = Null
       THEN /\ nextId <= Len(NewIds)
            /\ db' = <<NewIds[nextId]>> \o db
            /\ nextId' = nextId + 1
       ELSE UNCHANGED <<db, nextId>>
    /\ UNCHANGED <<session, messages, query, history, currentConversationId,
                   isLoading, isLoadingHistory, isLoadingConversation, loads,
                   deletes, fetches>>
    /\ alertShown' = ""
    /\ PageStep("")

\* the updater of the read loop: the trailing ai entry takes the content
ChunkUpdate(prev, content) ==
    IF Len(prev) > 0 /\ Last(prev).role = "ai"
    THEN [prev EXCEPT ![Len(prev)] = Msg("ai", content)]
    ELSE prev

\* reader.read() yields the next n bytes of the body
StreamChunk(i, n) ==
    /\ i \in 1..Len(sends)
    /\ sends[i].phase = "stream"
    /\ LET bytes == EncodeText(sends[i].text)
           from == sends[i].pos
       IN  /\ from + n <= Len(bytes)
           /\ LET r == Decode(sends[i].carry, SubSeq(bytes, from + 1, from + n))
                  content == sends[i].aiResponseContent \o r.out
              IN  /\ sends' = [sends EXCEPT ![i].pos = from + n,
                                            ![i].aiResponseContent = content,
                                            ![i].carry = r.carry]
                  /\ messages' = ChunkUpdate(messages, content)
    /\ UNCHANGED <<session, query, history, currentConversationId, isLoading,
                   isLoadingHistory, isLoadingConversation, loads, deletes,
                   fetches, db, nextId>>
    /\ alertShown' = ""
    /\ PageStep("")

\* the finally block up to its await: the busy flag is cleared and, for a
\* send that started without a conversation id, fetchHistory is called
FinallyKeepsBusyOnError(i, outcome) ==
    /\ isLoading' = (outcome = "error")
    /\ IF sends[i].isNewChat /\ sends[i].session # Null
       THEN /\ isLoadingHistory' = TRUE
            /\ sends' = [sends EXCEPT ![i] =
                  [NewSend EXCEPT !.phase = "resync", !.outcome = outcome,
                                  !.request = sends[i].request,
                                  !.session = sends[i].session,
                                  !.isNewChat = TRUE]]
       ELSE /\ sends' = RemoveAt(sends, i)
            /\ UNCHANGED isLoadingHistory

Finally(i, outcome) ==
    /\ isLoading' = FALSE
    /\ IF sends[i].isNewChat /\ sends[i].session # Null
       THEN /\ isLoadingHistory' = TRUE
            /\ sends' = [sends EXCEPT ![i] =
                  [NewSend EXCEPT !.phase = "resync", !.outcome = outcome,
                                  !.request = sends[i].request,
                                  !.session = sends[i].session,
                                  !.isNewChat = TRUE]]
       ELSE /\ sends' = RemoveAt(sends, i)
            /\ UNCHANGED isLoadingHistory

\* reader.read() reports done
StreamEnd(i) ==
    /\ i \in 1..Len(sends)
    /\ sends[i].phase = "stream"
    /\ sends[i].pos = Len(EncodeText(sends[i].text))
    /\ Finally(i, "ok")
    /\ UNCHANGED <<session, messages, query, history, currentConversationId,
                   isLoadingConversation, loads, deletes, fetches, db, nextId>>
    /\ alertShown' = ""
    /\ PageStep("")

\* errorBody of a non-2xx answer: the detail of its JSON body, if any
ErrorBody(st, detail) ==
    IF detail = Null THEN "HTTP error! status: " \o st ELSE detail

ErrorTextGeneric(m) == "Error\n\nThere was an issue connecting to the AI service."

ErrorText(m) ==
    "Error: " \o m \o "\n\nThere was an issue connecting to the AI service."

\* the updater of the catch block
CatchUpdateAppends(prev, errorMessage) == Append(prev, errorMessage)

CatchUpdate(prev, errorMessage) ==
    IF Len(prev) - 1 >= 0 /\ Last(prev).role = "ai"
    THEN Append(Front(prev), errorMessage)
    ELSE Append(prev, errorMessage)

\* the catch block followed by the finally block
SendFails(i, m) ==
    /\ messages' = CatchUpdate(messages, Msg("ai", ErrorText(m)))
    /\ Finally(i, "error")
    /\ UNCHANGED <<session, query, history, currentConversationId,
                   isLoadingConversation, loads, deletes, fetches, db, nextId>>
    /\ alertShown' = ""
    /\ PageStep(m)

\* the answer is not 2xx
ResearchRespondError(i, st, detail) ==
    /\ i \in 1..Len(sends)
    /\ sends[i].phase = "request"
    /\ SendFails(i, ErrorBody(st, detail))

\* fetch rejects, or reader.read() rejects before or between chunks
ResearchNetworkError(i, m) ==
    /\ i \in 1..Len(sends)
    /\ sends[i].phase \in {"request", "stream"}
    /\ SendFails(i, m)

\* the await of fetchHistory in the finally block resumes with newHistory
ResyncReturnOldest(i, newHistory) ==
    /\ i \in 1..Len(sends)
    /\ sends[i].phase = "resync"
    /\ history' = newHistory
    /\ isLoadingHistory' = FALSE
    /\ currentConversationId' =
          IF Len(newHistory) > 0 THEN Last(newHistory)
          ELSE currentConversationId
    /\ sends' = RemoveAt(sends, i)
    /\ UNCHANGED <<session, messages, query, isLoading, isLoadingConversation,
                   loads, deletes, fetches, db, nextId>>
    /\ alertShown' = ""
    /\ PageStep("")

ResyncReturn(i, newHistory) ==
    /\ i \in 1..Len(sends)
    /\ sends[i].phase = "resync"
    /\ history' = newHistory
    /\ isLoadingHistory' = FALSE
    /\ currentConversationId' =
          IF Len(newHistory) > 0 THEN newHistory[1] ELSE currentConversationId
    /\ sends' = RemoveAt(sends, i)
    /\ UNCHANGED <<session, messages, query, isLoading, isLoadingConversation,
                   loads, deletes, fetches, db, nextId>>
    /\ alertShown' = ""
    /\ PageStep("")

\* fetchHistory failed in the finally block: it logged the error, emptied
\* the history and returned [], so the active conversation id is kept
ResyncFail(i, m) ==
    /\ i \in 1..Len(sends)
    /\ sends[i].phase = "resync"
    /\ history' = <<>>
    /\ isLoadingHistory' = FALSE
    /\ sends' = RemoveAt(sends, i)
    /\ UNCHANGED <<session, messages, query, currentConversationId, isLoading,
                   isLoadingConversation, loads, deletes, fetches, db, nextId>>
    /\ alertShown' = ""
    /\ PageStep(m)

----------------------------------------------------------------------------
(* The upload dialog: ChatInput's attach button and UploaderModal *)

MaxTimers == 1                      \* pending timeouts of one kind
Files == {"a.pdf"}                  \* names of the files the user can choose
UploadMessages == {"stored"}        \* result.message of a successful upload

\* a step of the dialog or of the form: the page is not touched
WidgetStep(m) ==
    /\ UNCHANGED pageVars
    /\ alertShown' = ""
    /\ caught' = m
    /\ unhandled' = FALSE

\* the attach button: setUploaderOpen(true)
openUploader ==
    /\ session # Null
    /\ ~uploaderOpen
    /\ uploaderOpen' = TRUE
    /\ UNCHANGED <<file, status, statusType, isProcessing, uploads,
                   closeTimers, resetTimers, formVars>>
    /\ WidgetStep("")

\* closeModal as a closure that read processing: it returns while
\* processing, else it closes the dialog and schedules the reset
CloseModal(processing) ==
    IF processing
    THEN UNCHANGED <<uploaderOpen, resetTimers>>
    ELSE /\ resetTimers < MaxTimers
         /\ uploaderOpen' = FALSE
         /\ resetTimers' = resetTimers + 1

\* the X button or the Dialog's onClose
closeModal ==
    /\ session # Null
    /\ uploaderOpen
    /\ CloseModal(isProcessing)
    /\ UNCHANGED <<file, status, statusType, isProcessing, uploads,
                   closeTimers, formVars>>
    /\ WidgetStep("")

\* the timeout of closeModal: the dialog's state is reset
ResetTimerFires ==
    /\ resetTimers > 0
    /\ resetTimers' = resetTimers - 1
    /\ file' = Null
    /\ status' = ""
    /\ statusType' = "info"
    /\ UNCHANGED <<uploaderOpen, isProcessing, uploads, closeTimers, formVars>>
    /\ WidgetStep("")

\* the file input's onChange; the input is disabled while processing
handleFileChange(selectedFile) ==
    /\ session # Null
    /\ uploaderOpen
    /\ ~isProcessing
    /\ file' = selectedFile
    /\ IF selectedFile # Null
       THEN /\ status' = "Ready to upload: " \o selectedFile
            /\ statusType' = "info"
       ELSE /\ status' = ""
            /\ UNCHANGED statusType
    /\ UNCHANGED <<uploaderOpen, isProcessing, uploads, closeTimers,
                   resetTimers, formVars>>
    /\ WidgetStep("")

\* !file || !userId, where userId is session.user.id
UploadRejectedNoUser == session = Null

UploadRejected == file = Null \/ session = Null

ProcessingText(f) == "Processing " \o f \o "... (this may take a moment)"

\* the form's submit event, up to the await of fetch.  The submit button is
\* disabled without a file and while processing; the handler checks the
\* file (and the user id) itself.
handleUpload ==
    /\ session # Null
    /\ uploaderOpen
    /\ ~isProcessing
    /\ IF UploadRejected
       THEN /\ status' = "Please select a file."
            /\ statusType' = "error"
            /\ UNCHANGED <<isProcessing, uploads>>
       ELSE /\ isProcessing' = TRUE
            /\ status' = ProcessingText(file)
            /\ statusType' = "info"
            /\ uploads' = uploads + 1
    /\ UNCHANGED <<uploaderOpen, file, closeTimers, resetTimers, formVars>>
    /\ WidgetStep("")

\* response.ok: the result is shown and the dialog is set to close
UploadRespondOk(msg) ==
    /\ uploads > 0
    /\ closeTimers < MaxTimers
    /\ uploads' = uploads - 1
    /\ status' = "Success: " \o msg
    /\ statusType' = "success"
    /\ file' = Null
    /\ closeTimers' = closeTimers + 1
    /\ isProcessing' = FALSE
    /\ UNCHANGED <<uploaderOpen, resetTimers, formVars>>
    /\ WidgetStep("")

UploadFailedText(m) == "Upload failed: " \o m

\* error.message of a failed upload: the body's detail, the status when the
\* body has none, or the message of the rejected fetch or json()
UploadErrors ==
    {IF d = Null THEN "HTTP Error " \o st ELSE d : d \in Details, st \in Statuses}
        \cup NetErrors

\* the catch block and the finally block
UploadRespondFail(m) ==
    /\ uploads > 0
    /\ uploads' = uploads - 1
    /\ status' = UploadFailedText(m)
    /\ statusType' = "error"
    /\ isProcessing' = FALSE
    /\ UNCHANGED <<uploaderOpen, file, closeTimers, resetTimers, formVars>>
    /\ WidgetStep(m)

\* setTimeout(() => closeModal(), 2000) of a successful upload: closeModal
\* is the closure of the render that handled the submit, where isProcessing
\* was false
CloseTimerFires ==
    /\ closeTimers > 0
    /\ closeTimers' = closeTimers - 1
    /\ CloseModal(FALSE)
    /\ UNCHANGED <<file, status, statusType, isProcessing, uploads, formVars>>
    /\ WidgetStep("")

UploadNext ==
    \/ openUploader
    \/ closeModal
    \/ ResetTimerFires
    \/ \E f \in Files \cup {Null} : handleFileChange(f)
    \/ handleUpload
    \/ \E msg \in UploadMessages : UploadRespondOk(msg)
    \/ \E m \in UploadErrors : UploadRespondFail(m)
    \/ CloseTimerFires

----------------------------------------------------------------------------
(* The login form: AuthForm, mounted while session is null *)

Emails == {"", "a@b.c"}
AuthErrors == {"Invalid login credentials"}     \* error.message of the provider

\* the email input's onChange
SetEmail(e) ==
    /\ session = Null
    /\ e # email
    /\ email' = e
    /\ UNCHANGED <<authError, message, formIsLoading, isSigningUp, formCall,
                   uploadVars>>
    /\ WidgetStep("")

\* the button that switches between login and sign-up
toggleSignUp ==
    /\ session = Null
    /\ isSigningUp' = ~isSigningUp
    /\ authError' = Null
    /\ message' = Null
    /\ UNCHANGED <<email, formIsLoading, formCall, uploadVars>>
    /\ WidgetStep("")

NoEmailText == "Please enter your email address to reset your password."

\* the handler up to its await; its button is shown on the login side and
\* disabled while a call is pending
handlePasswordReset ==
    /\ session = Null
    /\ ~isSigningUp
    /\ ~formIsLoading
    /\ message' = Null
    /\ IF email = ""
       THEN /\ authError' = NoEmailText
            /\ UNCHANGED <<formIsLoading, formCall>>
       ELSE /\ authError' = Null
            /\ formIsLoading' = TRUE
            /\ formCall' = "resetPasswordForEmail"
    /\ UNCHANGED <<email, isSigningUp, uploadVars>>
    /\ WidgetStep("")

\* the form's submit (the email input is required, the button disabled while
\* a call is pending), up to the await of signUp or signInWithPassword
handleAuthAction ==
    /\ session = Null
    /\ ~formIsLoading
    /\ email # ""
    /\ authError' = Null
    /\ message' = Null
    /\ formIsLoading' = TRUE
    /\ formCall' = IF isSigningUp THEN "signUp" ELSE "signInWithPassword"
    /\ UNCHANGED <<email, isSigningUp, uploadVars>>
    /\ WidgetStep("")

SentText == "Password reset link sent! Check your email (and spam folder)."
SignedUpText == "Sign-up successful! Please check your email to confirm."

\* resetPasswordForEmail or signUp returned without an error.  A sign-in
\* that succeeds is the step AuthSignedIn: the callback sets the session and
\* the form is unmounted.
FormReturnOk ==
    /\ formCall \in {"resetPasswordForEmail", "signUp"}
    /\ message' = IF formCall = "signUp" THEN SignedUpText ELSE SentText
    /\ formIsLoading' = FALSE
    /\ formCall' = Null
    /\ UNCHANGED <<email, authError, isSigningUp, uploadVars>>
    /\ WidgetStep("")

\* the call returned an error or rejected: the catch block, then finally
FormReturnFail(m) ==
    /\ formCall # Null
    /\ authError' = m
    /\ formIsLoading' = FALSE
    /\ formCall' = Null
    /\ UNCHANGED <<email, message, isSigningUp, uploadVars>>
    /\ WidgetStep(m)

FormNext ==
    \/ \E e \in Emails : SetEmail(e)
    \/ toggleSignUp
    \/ handlePasswordReset
    \/ handleAuthAction
    \/ FormReturnOk
    \/ \E m \in AuthErrors \cup NetErrors : FormReturnFail(m)

----------------------------------------------------------------------------
(* The specification *)

\* steps of the user and of pending calls that reset or replace the chat
ChatChange ==
    \/ AuthSignedOut
    \/ startNewChat
    \/ \E id \in Range(history) : loadConversation(id)
    \/ \E i \in 1..Len(loads) : \E rows \in StoredRows(loads[i]) :
          LoadReturnOk(i, rows)
    \/ \E i \in 1..Len(loads) : \E m \in LoadErrors : LoadReturnFail(i, m)
    \/ \E id \in Range(history) : handleDeleteConversation(id)
    \/ \E d \in deletes : DeleteMessagesOk(d)
    \/ \E d \in deletes : \E m \in DbErrors : DeleteMessagesFail(d, m)
    \/ \E d \in deletes : DeleteConversationOk(d)
    \/ \E d \in deletes : \E m \in DbErrors : DeleteConversationFail(d, m)

\* steps of the backend on a pending research request
Backend ==
    \/ \E i \in 1..Len(sends) : \E text \in Texts : ResearchRespondOk(i, text)
    \/ \E i \in 1..Len(sends) : \E st \in Statuses : \E d \in Details :
          ResearchRespondError(i, st, d)
    \/ \E i \in 1..Len(sends) : \E m \in NetErrors : ResearchNetworkError(i, m)
    \/ \E i \in 1..Len(sends) : \E n \in 1..MaxChunk : StreamChunk(i, n)
    \/ \E i \in 1..Len(sends) : StreamEnd(i)

Other ==
    \/ AuthSignedIn
    \/ \E data \in {SelectHistory} : FetchHistoryReturn(data)
    \/ \E m \in DbErrors : FetchHistoryFail(m)
    \/ \E q \in Queries : SetQuery(q)
    \/ handleResearch
    \/ \E i \in 1..Len(sends) : \E data \in {SelectHistory} :
          ResyncReturn(i, data)
    \/ \E i \in 1..Len(sends) : \E m \in DbErrors : ResyncFail(i, m)

Next == ChatChange \/ Backend \/ Other

Spec == Init /\ [][Next]_vars

\* sends whose request or stream is pending
Streaming == {i \in 1..Len(sends) : sends[i].phase \in {"request", "stream"}}

\* the behaviours in which the chat is not reset or replaced while a request
\* or a stream is pending
QuietNext == (Streaming = {} /\ ChatChange) \/ Backend \/ Other

QuietSpec == Init /\ [][QuietNext]_vars

\* the backend answers every request, and every stream ends or fails
FairSpec == Spec /\ WF_vars(Backend)

\* signing in and out, without the chat
Auth ==
    \/ AuthSignedIn
    \/ AuthSignedOut
    \/ \E data \in {SelectHistory} : FetchHistoryReturn(data)
    \/ \E m \in DbErrors : FetchHistoryFail(m)

\* the chat is at rest: nothing in flight, nothing typed, no conversation
ChatIdle ==
    /\ InFlight = 0
    /\ messages = <<>>
    /\ query = ""
    /\ currentConversationId = Null

\* the dialog and the form are as mounted
WidgetsIdle ==
    /\ ~uploaderOpen /\ file = Null /\ status = "" /\ statusType = "info"
    /\ ~isProcessing /\ uploads = 0 /\ closeTimers = 0 /\ resetTimers = 0
    /\ email = "" /\ authError = Null /\ message = Null
    /\ ~formIsLoading /\ ~isSigningUp /\ formCall = Null

\* every component of the application.  The chat, the dialog and the form
\* share no state but the session, so they are not interleaved: the chat
\* runs while the dialog and the form are as mounted, and these run while
\* the chat is at rest.
AppNext ==
    \/ WidgetsIdle /\ Next
    \/ WidgetsIdle /\ ChatIdle /\ \E rejected \in BOOLEAN :
          handleLogoutFails(rejected)
    \/ ChatIdle /\ UploadNext
    \/ ChatIdle /\ FormNext

AppSpec == Init /\ [][AppNext]_vars

\* the upload dialog of a user who signs in and out and leaves the chat alone
UploadSpec == Init /\ [][Auth \/ UploadNext]_vars

----------------------------------------------------------------------------
(* Properties *)

\* the characters of t whose bytes all lie within its first n bytes
RECURSIVE CharsWithin(_, _)
CharsWithin(t, n) ==
    IF t = <<>> \/ Len(EncodeChar(t[1])) > n THEN <<>>
    ELSE <<t[1]>> \o CharsWithin(Tail(t), n - Len(EncodeChar(t[1])))

\* C1: while a stream is read and the chat is not reset or replaced, the
\* trailing entry is the ai entry whose content is the text accumulated from
\* the chunks read so far, which is the text of the characters that have
\* arrived completely, however the body was cut into chunks; when all bytes
\* have arrived it is the whole text of the response.
C1_StreamedContent ==
    \A i \in 1..Len(sends) :
        sends[i].phase = "stream" =>
            /\ Len(messages) > 0
            /\ Last(messages) = Msg("ai", sends[i].aiResponseContent)
            /\ Last(messages).content =
                  TextString(CharsWithin(sends[i].text, sends[i].pos))
            /\ sends[i].pos = Len(EncodeText(sends[i].text)) =>
                  Last(messages).content = TextString(sends[i].text)

\* a chunk has ended inside the two-byte character: the decoder holds its
\* first byte and the entry shows the text before it
C1_Witness ==
    \E i \in 1..Len(sends) :
        /\ sends[i].phase = "stream"
        /\ sends[i].text = <<"a", "E">>
        /\ sends[i].pos = 2
        /\ sends[i].carry = <<195>>
        /\ messages = <<Msg("user", "hello"), Msg("ai", "a")>>

NoAdjacentAi(m) ==
    \A k \in 1..(Len(m) - 1) : ~(m[k].role = "ai" /\ m[k + 1].role = "ai")

\* C2: whenever the busy flag is clear (no send has started, or every send
\* has reached its finally block, by the end of its stream or by an error),
\* no two adjacent entries of the message sequence both have role ai.
C2_NoTwoAdjacentAi == ~isLoading => NoAdjacentAi(messages)

\* a send has failed and its placeholder was replaced by the error entry
C2_Witness ==
    /\ ~isLoading
    /\ Len(messages) = 2
    /\ messages[1].role = "user"
    /\ messages[2] = Msg("ai", ErrorText("overloaded"))

\* C3: a step of a pending handleDeleteConversation call changes the local
\* history only when the delete of the conversation row has succeeded, and
\* then by filtering out the entry; when the call ends after the delete of
\* the messages failed, or ends with the row still in the table, the history
\* is unchanged and an alert reports the failure.
C3_DeleteReconciles ==
    [][\A d \in deletes \ deletes' :
          LET failed ==
                \/ /\ d.phase = "messages"
                   /\ [d EXCEPT !.phase = "conversation"] \notin deletes'
                \/ /\ d.phase = "conversation"
                   /\ d.id \in Range(db')
          IN  /\ d.phase = "messages" => history' = history
              /\ failed =>
                    /\ history' = history
                    /\ \E m \in DbErrors : alertShown' = DeleteFailedText(m)
              /\ history' # history =>
                    /\ d.phase = "conversation"
                    /\ history' = Filter(history, d.id)
                    /\ d.id \notin Range(db')
                    /\ alertShown' = ""
      ]_vars

\* a delete failed: the alert is up and the entry is still listed
C3_Witness ==
    /\ alertShown = DeleteFailedText("permission denied")
    /\ history = <<"c1">>
    /\ deletes = {}

\* C4: at most one research request or stream is pending at any time and
\* the busy flag is set while it is pending; from a state with the busy flag
\* set no step issues a research request or appends a placeholder.
C4_OneStream ==
    /\ [](Cardinality(Streaming) <= 1 /\ (Streaming # {} => isLoading))
    /\ [][isLoading =>
             /\ Len(sends') <= Len(sends)
             /\ ~(/\ Len(messages') = Len(messages) + 2
                  /\ SubSeq(messages', 1, Len(messages)) = messages
                  /\ Last(messages') = Placeholder)
         ]_vars

\* a send is started while an earlier one still waits for its history
\* resync, so two calls are in flight and one of them streams
C4_Witness ==
    /\ Len(sends) = 2
    /\ Cardinality(Streaming) = 1
    /\ isLoading

\* C5: whenever the busy flag is set, it is cleared again later, provided the
\* backend answers every request and every stream ends or fails.
C5_BusyFlagCleared == isLoading ~> ~isLoading

\* a send has failed, its finally block has cleared the flag and its history
\* resync is pending
C5_Witness ==
    /\ ~isLoading
    /\ \E i \in 1..Len(sends) :
          sends[i].phase = "resync" /\ sends[i].outcome = "error"

\* C6: from a state whose input is empty no step starts a send: no research
\* request is issued, the busy flag is not set and no placeholder is appended
\* to the message sequence, so a send attempted there changes nothing.
C6_EmptyInputSendsNothing ==
    [][query = "" =>
          /\ Len(sends') <= Len(sends)
          /\ isLoading' => isLoading
          /\ ~(/\ Len(messages') = Len(messages) + 2
               /\ SubSeq(messages', 1, Len(messages)) = messages
               /\ Last(messages') = Placeholder)
      ]_vars

\* signed in and idle with an empty input: only the emptiness of the input
\* stands between the user and a send
C6_Witness ==
    /\ session # Null
    /\ query = ""
    /\ ~isLoading /\ ~isLoadingConversation
    /\ InFlight < MaxInFlight
    /\ Len(messages) + 2 <= MaxMsgs
    /\ Len(messages) > 0

\* strings around the error text in an entry that describes a failure
Affixes ==
    {"", "Error: ", "\n\nThere was an issue connecting to the AI service.",
     "Failed to load conversation: ", "Failed to delete chat: ",
     "Upload failed: "}

ContainsText(c, m) == \E p \in Affixes : \E q \in Affixes : c = p \o m \o q

\* what the failure of a send must make of the message sequence prev
FailureShown(prev, next, m) ==
    /\ Last(next).role = "ai"
    /\ ContainsText(Last(next).content, m)
    /\ IF Len(prev) > 0 /\ Last(prev).role = "ai"
       THEN Len(next) = Len(prev) /\ Front(next) = Front(prev)
       ELSE Len(next) = Len(prev) + 1 /\ Front(next) = prev

\* C7: when a send fails, by a non-2xx answer with detail d, by a non-2xx
\* answer without a detail, or by a rejected fetch or read before or after
\* chunks, the trailing ai entry is replaced by one ai entry that contains the
\* error text and the length is unchanged; when the trailing entry is not an
\* ai entry, that entry is appended.
C7_FailureReplacesPlaceholder ==
    [][\A i \in 1..Len(sends) :
          /\ \A st \in Statuses : \A d \in Details :
                ResearchRespondError(i, st, d) =>
                    FailureShown(messages, messages',
                        IF d = Null THEN "HTTP error! status: " \o st ELSE d)
          /\ \A m \in NetErrors :
                ResearchNetworkError(i, m) => FailureShown(messages, messages', m)
      ]_vars

\* a send was answered with status 500 and no detail: its placeholder now
\* shows the error and the call is in its finally block
C7_Witness ==
    /\ \E i \in 1..Len(sends) :
          sends[i].phase = "resync" /\ sends[i].outcome = "error"
    /\ messages = <<Msg("user", "hello"),
                    Msg("ai", ErrorText("HTTP error! status: 500"))>>

\* C8: the step that starts a send, from input q and message sequence M, sets
\* the busy flag, clears the input, makes the message sequence M followed by
\* the user entry q and the empty ai entry, and issues one request, not yet
\* answered, that carries q, the user id and the active conversation id.
C8_SendStart ==
    [][Len(sends') > Len(sends) =>
          /\ query # ""
          /\ ~isLoading /\ isLoading'
          /\ query' = ""
          /\ messages' = messages \o <<Msg("user", query), Msg("ai", "")>>
          /\ sends' = Append(sends, Last(sends'))
          /\ Last(sends').phase = "request"
          /\ Last(sends').request =
                [query |-> query, user_id |-> session,
                 conversation_id |-> currentConversationId]
          /\ session = UserId
      ]_vars

\* a send in a loaded conversation: the request carries its id
C8_Witness ==
    /\ Len(sends) = 1
    /\ sends[1].phase = "request"
    /\ sends[1].request =
          [query |-> "hello", user_id |-> UserId, conversation_id |-> "c1"]
    /\ messages = <<Msg("user", "hello"), Msg("user", "hello"), Msg("ai", "")>>
    /\ isLoading /\ query = ""

\* C9: when the stream of a send that started without a conversation id ends,
\* the call goes on to refetch the history; when that refetch returns, the
\* local history is the list it returned, and if the list is not empty the
\* active conversation id is the id of its first entry.
C9_ResyncAdoptsNewest ==
    [][\A i \in 1..Len(sends) :
          /\ (sends[i].phase = "stream" /\ sends[i].isNewChat /\ StreamEnd(i)) =>
                /\ Len(sends') = Len(sends)
                /\ sends'[i].phase = "resync" /\ sends'[i].outcome = "ok"
                /\ isLoadingHistory'
          /\ (/\ sends[i].phase = "resync" /\ sends[i].outcome = "ok"
              /\ sends' = RemoveAt(sends, i)) =>
                /\ history' \in HistoryResults
                /\ history' # <<>> => currentConversationId' = history'[1]
      ]_vars

\* the first send of a new session has streamed its text and its resync has
\* made the conversation the backend created the active one
C9_Witness ==
    /\ sends = <<>>
    /\ messages = <<Msg("user", "hello"), Msg("ai", "aE")>>
    /\ history = <<"c2", "c1">>
    /\ currentConversationId = "c2"

\* the entries a list of rows must show as
Shown(rows) ==
    [k \in 1..Len(rows) |-> [role |-> rows[k].role, content |-> rows[k].content]]

LoadFailureShown(next, m) ==
    /\ Len(next) = 1
    /\ next[1].role = "ai"
    /\ ContainsText(next[1].content, m)

\* C10 as stated, for a load during which the user stays signed in: when a
\* load of id completes with the rows L, the message sequence is L, the
\* loading flag is clear and the active conversation id is id; when it
\* fails, the sequence is one ai entry with the failure.
C10_LoadCompletesAsStated ==
    [][\A i \in 1..Len(loads) :
          /\ \A rows \in StoredRows(loads[i]) :
                (session # Null /\ LoadReturnOk(i, rows)) =>
                    /\ messages' = Shown(rows)
                    /\ ~isLoadingConversation'
                    /\ currentConversationId' = loads[i]
          /\ \A m \in LoadErrors :
                LoadReturnFail(i, m) =>
                    LoadFailureShown(messages', m) /\ ~isLoadingConversation'
      ]_vars

\* C10, amended: loadConversation(id) is accepted only while no load is in
\* progress and makes id the active conversation id at once; when the load
\* completes with the rows L, the message sequence is L, in order, and the
\* loading flag is clear; when it fails, the sequence is one ai entry with
\* the failure.
C10_LoadCompletes ==
    [][/\ Len(loads') > Len(loads) =>
             /\ ~isLoadingConversation /\ isLoadingConversation'
             /\ loads = <<>>
             /\ currentConversationId' = Last(loads')
       /\ \A i \in 1..Len(loads) :
             /\ \A rows \in StoredRows(loads[i]) :
                   LoadReturnOk(i, rows) =>
                       messages' = Shown(rows) /\ ~isLoadingConversation'
             /\ \A m \in LoadErrors :
                   LoadReturnFail(i, m) =>
                       LoadFailureShown(messages', m) /\ ~isLoadingConversation'
      ]_vars

\* the load of c1 has completed with two rows
C10_Witness ==
    /\ loads = <<>>
    /\ ~isLoadingConversation
    /\ currentConversationId = "c1"
    /\ messages = <<Msg("user", "hello"), Msg("ai", "answer")>>

\* the error text m is on the screen after the step: in the trailing ai
\* entry, in an alert, in the dialog's status or in the form's error line
ErrorVisible(m) ==
    \/ Len(messages') > 0 /\ Last(messages').role = "ai"
          /\ ContainsText(Last(messages').content, m)
    \/ ContainsText(alertShown', m)
    \/ statusType' = "error" /\ ContainsText(status', m)
    \/ authError' = m

\* C11: every step in which an external call fails (research request, stream
\* read, conversation load, history fetch, delete of the messages or of the
\* conversation, upload, sign-in, sign-up, password reset; these are the
\* steps in which a catch block runs) ends without an unhandled rejection
\* and with the error text visible to the user.
C11_FailuresSurface ==
    [][caught' # "" => (~unhandled' /\ ErrorVisible(caught'))]_vars

\* the same for every call but the history fetch, whose catch block only
\* logs the error and empties the history
C11_FailuresSurfaceButHistory ==
    [][(caught' # "" /\ ~(\E m \in DbErrors : FetchHistoryFail(m))
          /\ ~(\E i \in 1..Len(sends) : \E m \in DbErrors : ResyncFail(i, m)))
          => (~unhandled' /\ ErrorVisible(caught'))]_vars

\* C12: from a state with no file selected (or with no user id) no step
\* issues an upload or sets the processing flag, and the submit handler run
\* there leaves the dialog showing the error status "Please select a file.".
C12_UploadNeedsFile ==
    [][(file = Null \/ session = Null) =>
          /\ uploads' <= uploads
          /\ isProcessing' => isProcessing
          /\ handleUpload =>
                /\ statusType' = "error"
                /\ status' = "Please select a file."
                /\ ~isProcessing'
      ]_vars

\* the dialog after a submit without a file
C12_Witness ==
    /\ uploaderOpen
    /\ file = Null
    /\ status = "Please select a file."
    /\ statusType = "error"
    /\ ~isProcessing
    /\ uploads = 0

\* C13: a send that failed issues no history refetch: no call is ever
\* suspended at the fetchHistory of the finally block after its catch block
\* ran, whether or not it started without a conversation id.
C13_NoRefetchAfterFailure ==
    \A i \in 1..Len(sends) :
        sends[i].phase = "resync" => sends[i].outcome = "ok"

\* C14: the active conversation id goes from none to an id only in the step
\* that selects a history entry, which sets it to that entry, or in the step
\* that completes a send whose stream ended without an error.
C14_IdOnlyBySuccessOrSelection ==
    [][(currentConversationId = Null /\ currentConversationId' # Null) =>
          \/ /\ Len(loads') > Len(loads)
             /\ currentConversationId' = Last(loads')
          \/ \E i \in 1..Len(sends) :
                /\ sends[i].phase = "resync"
                /\ sends[i].outcome = "ok"
                /\ sends' = RemoveAt(sends, i)
      ]_vars

\* C15, for a selection: while the load of the history entry the user
\* selected is pending and that entry is the active conversation, every send
\* in flight was started before the selection (the input is disabled during
\* a load), and the step that completes such a send, here one whose stream
\* ended without an error, leaves the active conversation id as the user
\* set it.
C15_SelectionStands ==
    [][(/\ loads # <<>>
        /\ currentConversationId = loads[1]
        /\ \E i \in 1..Len(sends) :
              /\ sends[i].outcome = "ok"
              /\ sends' = RemoveAt(sends, i))
          => currentConversationId' = currentConversationId
      ]_vars

\* the message sequence is what a load put there: the rows of a stored
\* conversation, which no send has extended
ShowsLoaded ==
    \E id \in Range(OldIds) \cup Range(NewIds) :
        \E rows \in StoredRows(id) : messages = Shown(rows)

\* C16: while the message sequence is the rows loaded for a history entry,
\* every stream in flight belongs to a send started before that selection
\* (a later send would have appended its entries), and neither a chunk nor
\* an error of such a stream changes the loaded messages.
C16_StreamLeavesLoaded ==
    [][ShowsLoaded =>
          \A i \in 1..Len(sends) :
              /\ (\E n \in 1..MaxChunk : StreamChunk(i, n)) => messages' = messages
              /\ (\E st \in Statuses : \E d \in Details :
                      ResearchRespondError(i, st, d)) => messages' = messages
              /\ (\E m \in NetErrors : ResearchNetworkError(i, m))
                      => messages' = messages
      ]_vars

\* C17: while nobody is signed in (before the first sign-in and from the
\* step that handles a sign-out to the next sign-in) the message sequence is
\* empty, the history is empty and the active conversation id is none.
C17_SignedOutIsEmpty ==
    session = Null =>
        /\ messages = <<>>
        /\ history = <<>>
        /\ currentConversationId = Null

\* C18: the step in which a delete of conversation C completes with both
\* deletes done resets the chat (empty message sequence, active id none)
\* when C is the active conversation in that state, and leaves the message
\* sequence and the active id unchanged when it is not.
C18_DeleteResetsActive ==
    [][\A d \in deletes :
          DeleteConversationOk(d) =>
              IF currentConversationId = d.id
              THEN messages' = <<>> /\ currentConversationId' = Null
              ELSE /\ messages' = messages
                   /\ currentConversationId' = currentConversationId
      ]_vars

\* the message sequence ends with the exchange of the send i, answered by a
\* streamed text: the chat is still the session that send began
EndsWithExchange(i) ==
    /\ Len(messages) >= 2
    /\ messages[Len(messages) - 1] = Msg("user", sends[i].request.query)
    /\ Last(messages).role = "ai"
    /\ Last(messages).content \in {TextString(t) : t \in Texts}

\* C19: once the first send of a new session has succeeded and the busy flag
\* is cleared, a send started in that session carries a conversation id, also
\* when it is started while the history refetch of the first send is pending.
C19_LaterSendsCarryId ==
    [][(/\ Len(sends') > Len(sends)
        /\ \E i \in 1..Len(sends) :
              /\ sends[i].phase = "resync"
              /\ sends[i].outcome = "ok"
              /\ sends[i].request.conversation_id = Null
              /\ EndsWithExchange(i))
          => Last(sends').request.conversation_id # Null
      ]_vars

====
